---- MODULE Spec2Model ----
(***************************************************************************)
(* A model of src/rss_crawler.py: the RSSCrawler class.                    *)
(*                                                                         *)
(* The orchestrator thread executes RSSCrawler.run; every feed of          *)
(* rss_feeds gets one task in a ThreadPoolExecutor that executes           *)
(* _crawl_single_feed.  A link string is a sequence of tokens; the tokens  *)
(* "\n" and " " are the whitespace the line-oriented link store is         *)
(* sensitive to, every other token is an opaque piece of text, or a single *)
(* character where _extract_links is followed through a text.  The sleeps  *)
(* of the retry loop only let time pass and change no program state; the   *)
(* history variable slept records them where a specification asks for it.  *)
(***************************************************************************)
EXTENDS Integers, Sequences, FiniteSets, TLC

(***************************************************************************)
(* Program constants and the bounds of the model.                          *)
(***************************************************************************)
RetryCount == 3
HardCap == 3

MaxCycles == 2
MaxStored == 1
MaxConc == 2
MaxCalls == 4

Min(a, b) == IF a < b THEN a ELSE b

Newline == "\n"
Space == " "
Whitespace == {Space, Newline}

(***************************************************************************)
(* Link strings _extract_links can return (checked against the regular     *)
(* expressions of the source).  The ed2k grammar allows any character but  *)
(* "|" in the file name, so a link can hold a line break; the protocol     *)
(* pass returns, from the same text, the piece before the line break as a  *)
(* link of its own.                                                        *)
(***************************************************************************)
LinkPool ==
    << <<"ed2k://|file|x">>,
       <<"ed2k://|file|x", Newline, "magnet:?y|1|0123456789ABCDEF0123456789ABCDEF|/">> >>

Links == {LinkPool[i] : i \in DOMAIN LinkPool}

\* The feed sources: rss_feeds is the list 1, ..., n.
FeedPool == 1..(HardCap + 1)
FeedCounts == {0, 1, 2}

(***************************************************************************)
(* The text of the link store file.                                        *)
(***************************************************************************)

\* f.write(f"{link}\n") for every link of the sequence, in order.
RECURSIVE WriteLinks(_)
WriteLinks(links) ==
    IF links = <<>> THEN <<>>
    ELSE Head(links) \o <<Newline>> \o WriteLinks(Tail(links))

\* "for line in f": the lines of a text, each with the line break that ends it.
RECURSIVE FileLines(_, _)
FileLines(text, cur) ==
    IF text = <<>> THEN (IF cur = <<>> THEN <<>> ELSE <<cur>>)
    ELSE IF Head(text) = Newline
         THEN <<Append(cur, Newline)>> \o FileLines(Tail(text), <<>>)
         ELSE FileLines(Tail(text), Append(cur, Head(text)))

\* str.strip(): leading and trailing whitespace removed.
RECURSIVE LStrip(_)
LStrip(s) ==
    IF s # <<>> /\ Head(s) \in Whitespace THEN LStrip(Tail(s)) ELSE s

RECURSIVE RStrip(_)
RStrip(s) ==
    IF s # <<>> /\ s[Len(s)] \in Whitespace THEN RStrip(SubSeq(s, 1, Len(s) - 1)) ELSE s

Strip(s) == LStrip(RStrip(s))

\* _load_existing_links: the stripped non-blank lines of the file.
LoadedLinks(text) ==
    LET lines == FileLines(text, <<>>)
    IN {Strip(lines[i]) : i \in {j \in 1..Len(lines) : Strip(lines[j]) # <<>>}}

\* The orders in which "for link in new_links" can iterate a set.
\* Bytes of the store file that are not UTF-8 (a torn write, a file edited in
\* another encoding), and a record made of them.
Undecodable == "\\xff"
BadRecord == <<Undecodable>>

Readable(line) == \A i \in 1..Len(line) : line[i] # Undecodable

\* _load_existing_links: the read loop is inside one try block, and the text
\* file decodes a chunk of bytes at a time.  The chunk that holds undecodable
\* bytes raises UnicodeDecodeError as a whole; the handler prints the error and
\* the loop is over.  The links loaded are those of the lines that earlier
\* chunks held in full: some number of the lines before the bad one, none when
\* the file fits into one chunk.
LoadOutcomes(text) ==
    LET lines == FileLines(text, <<>>)
        bad == {i \in 1..Len(lines) : ~Readable(lines[i])}
        Loaded(n) == {Strip(lines[i]) : i \in {j \in 1..n : Strip(lines[j]) # <<>>}}
    IN IF bad = {}
       THEN {LoadedLinks(text)}
       ELSE {Loaded(n) : n \in 0..((CHOOSE i \in bad : \A j \in bad : i <= j) - 1)}

Orders(S) ==
    {s \in [1..Cardinality(S) -> S] : \A i, j \in 1..Cardinality(S) : s[i] = s[j] => i = j}

IsPrefix(s, t) == Len(s) <= Len(t) /\ SubSeq(t, 1, Len(s)) = s

(***************************************************************************)
(* _extract_links.  A text is a sequence of characters; a pattern is the   *)
(* regular expression of the source as a sequence of items, matched the    *)
(* way re.findall matches it: from left to right, every quantifier taking  *)
(* as much as it can and giving back when the rest fails, one match after  *)
(* the end of the one before.                                              *)
(***************************************************************************)
LowerCase ==
    <<"a", "b", "c", "d", "e", "f", "g", "h", "i", "j", "k", "l", "m", "n",
      "o", "p", "q", "r", "s", "t", "u", "v", "w", "x", "y", "z">>
UpperCase ==
    <<"A", "B", "C", "D", "E", "F", "G", "H", "I", "J", "K", "L", "M", "N",
      "O", "P", "Q", "R", "S", "T", "U", "V", "W", "X", "Y", "Z">>
Letters == {LowerCase[i] : i \in 1..26} \cup {UpperCase[i] : i \in 1..26}
Digits == {"0", "1", "2", "3", "4", "5", "6", "7", "8", "9"}

\* The characters of the names in cloud_domains that are not ASCII.
Cjk ==
    {"U+4E91", "U+514B", "U+52A8", "U+5929", "U+5938", "U+5EA6", "U+767E", "U+76D8", "U+79FB",
     "U+7F51", "U+7FFC", "U+8FC5", "U+91CC", "U+963F", "U+96F7"}

Punctuation ==
    {":", "/", ".", "?", "=", "&", "%", "-", "_", "|", "#", "\"", "'", ",", "!"}

\* Every character a text can hold.
Chars == Letters \cup Digits \cup Cjk \cup Punctuation \cup Whitespace

\* Mutant: the digits are not word characters.
WordNoDigits == Letters \cup Cjk \cup {"_"}

\* \w: in a str pattern the letters of every script, the digits and "_".
Word == Letters \cup Digits \cup Cjk \cup {"_"}

\* re.IGNORECASE: a set of characters matches in either case.
IgnoreCase(S) ==
    S \cup {UpperCase[i] : i \in {j \in 1..26 : LowerCase[j] \in S}}
      \cup {LowerCase[i] : i \in {j \in 1..26 : UpperCase[j] \in S}}

\* The quantifiers "+" and "*" have no upper limit.
Unbounded == -1

\* An item of a pattern is a literal string, or a set of characters repeated lo
\* to hi times, or a group of items repeated lo to hi times.
Lit(s) == <<[kind |-> "lit", s |-> s]>>
Item(S, lo, hi) == <<[kind |-> "chars", chars |-> IgnoreCase(S), lo |-> lo, hi |-> hi]>>
Group(items, lo, hi) == <<[kind |-> "group", items |-> items, lo |-> lo, hi |-> hi]>>

Opt(S) == Item(S, 0, 1)
Plus(S) == Item(S, 1, Unbounded)
Times(S, n) == Item(S, n, n)

Less(hi) == IF hi = Unbounded THEN Unbounded ELSE hi - 1
AtLeast(lo) == IF lo > 0 THEN lo - 1 ELSE 0

\* The literal s is at pos, in either case.
LitAt(s, text, pos) ==
    /\ pos + Len(s) - 1 <= Len(text)
    /\ \A i \in 1..Len(s) : text[pos + i - 1] \in IgnoreCase({s[i]})

\* How many characters from pos on are in S, counted up to hi.
RunLen(S, text, pos, hi) ==
    LET most == IF hi = Unbounded THEN Len(text) + 1 - pos ELSE Min(hi, Len(text) + 1 - pos)
        InS(n) == \A i \in 0..(n - 1) : text[pos + i] \in S
    IN CHOOSE n \in 0..most : InS(n) /\ (n = most \/ text[pos + n] \notin S)

\* The position after the match of pat that starts at pos, 0 when there is
\* none.  A repeated set takes the longest run after which the rest matches; a
\* group is tried once more before the rest is tried without it.
RECURSIVE MatchSeq(_, _, _)
MatchSeq(pat, text, pos) ==
    IF pat = <<>>
    THEN pos
    ELSE LET item == Head(pat)
             rest == Tail(pat)
         IN CASE item.kind = "lit" ->
                   IF LitAt(item.s, text, pos) THEN MatchSeq(rest, text, pos + Len(item.s)) ELSE 0
              [] item.kind = "chars" ->
                   LET run == RunLen(item.chars, text, pos, item.hi)
                       fit == {n \in item.lo..run : MatchSeq(rest, text, pos + n) # 0}
                   IN IF fit = {}
                      THEN 0
                      ELSE MatchSeq(rest, text, pos + CHOOSE n \in fit : \A m \in fit : m <= n)
              [] item.kind = "group" ->
                   LET once == item.items \o Group(item.items, AtLeast(item.lo), Less(item.hi)) \o rest
                       end == IF item.hi = 0 THEN 0 ELSE MatchSeq(once, text, pos)
                   IN IF end # 0
                      THEN end
                      ELSE IF item.lo <= 0 THEN MatchSeq(rest, text, pos) ELSE 0

\* re.findall(pattern, content, re.IGNORECASE) for a pattern whose first group
\* is the whole pattern: the set of the matched strings, each match searched
\* from the end of the one before.
RECURSIVE FindAll(_, _, _)
FindAll(pat, text, pos) ==
    LET starts == {p \in pos..Len(text) : MatchSeq(pat, text, p) # 0}
    IN IF starts = {}
       THEN {}
       ELSE LET start == CHOOSE p \in starts : \A q \in starts : p <= q
                end == MatchSeq(pat, text, start)
            IN {SubSeq(text, start, end - 1)} \cup FindAll(pat, text, IF end = start THEN end + 1 ELSE end)

\* The character sets of the patterns.
WordDash == Word \cup {"-"}
WordDashEq == Word \cup {"-", "="}
UrlTail == Word \cup {"-", "/", ".", "?", "&", "=", "%"}
Hex == Digits \cup {"a", "b", "c", "d", "e", "f", "A", "B", "C", "D", "E", "F"}
UpperHex == Digits \cup {"A", "B", "C", "D", "E", "F"}
NotBar == Chars \ {"|"}
NotSpaceQuote == Chars \ (Whitespace \cup {"\"", "'"})

\* https?://
Http == Lit(<<"h", "t", "t", "p">>) \o Opt({"s"}) \o Lit(<<":", "/", "/">>)

\* (\?password=[\w\-]+)?
Password == Group(Lit(<<"?", "p", "a", "s", "s", "w", "o", "r", "d", "=">>) \o Plus(WordDash), 0, 1)

\* The last of s_link_patterns: https?://[\w\-]+\.[\w\-]+/s/[\w\-]+
GenericSLink ==
    Http \o Plus(WordDash) \o Lit(<<".">>) \o Plus(WordDash) \o Lit(<<"/", "s", "/">>)
         \o Plus(WordDash)

s_link_patterns ==
    << Http \o Lit(<<"p", "a", "n", ".", "b", "a", "i", "d", "u", ".", "c", "o", "m",
              "/", "s", "/">>) \o Plus(WordDash),
       Http \o Lit(<<"y", "u", "n", ".", "b", "a", "i", "d", "u", ".", "c", "o", "m",
              "/", "s", "/">>) \o Plus(WordDash),
       Http \o Lit(<<"w", "w", "w", ".", "a", "l", "i", "y", "u", "n", "d", "r", "i",
              "v", "e", ".", "c", "o", "m", "/", "s", "/">>) \o Plus(WordDash),
       Http \o Lit(<<"a", "l", "i", "y", "u", "n", "d", "r", "i", "v", "e", ".", "c",
              "o", "m", "/", "s", "/">>) \o Plus(WordDash),
       Http \o Lit(<<"q", "u", "a", "r", "k", ".", "c", "n", "/", "s", "/">>) \o Plus(WordDash),
       Http \o Lit(<<"d", "r", "i", "v", "e", ".", "u", "c", ".", "c", "n", "/", "s",
              "/">>) \o Plus(WordDash),
       Http \o Lit(<<"1", "1", "5", "c", "d", "n", ".", "c", "o", "m", "/", "s", "/">>) \o Plus(WordDash) \o Password \o Opt({"#"}),
       Http \o Lit(<<"p", "i", "k", "p", "a", "k", ".", "c", "o", "m", "/", "s", "/">>) \o Plus(WordDash),
       Http \o Lit(<<"p", "a", "n", ".", "x", "u", "n", "l", "e", "i", ".", "c", "o",
              "m", "/", "s", "/">>) \o Plus(WordDash),
       Http \o Lit(<<"w", "w", "w", ".", "1", "2", "3", "p", "a", "n", ".", "c", "o",
              "m", "/", "s", "/">>) \o Plus(WordDash),
       GenericSLink >>

\* magnet:\?xt=urn:btih:[a-fA-F0-9]{40}(&[\w\-\=]+)*
StrictMagnet ==
    Lit(<<"m", "a", "g", "n", "e", "t", ":", "?", "x", "t", "=", "u", "r", "n",
        ":", "b", "t", "i", "h", ":">>)
        \o Times(Hex, 40) \o Group(Lit(<<"&">>) \o Plus(WordDashEq), 0, Unbounded)

\* ed2k://\|file\|[^\|]+\|[0-9]+\|[A-F0-9]{32}\|/
StrictEd2k ==
    Lit(<<"e", "d", "2", "k", ":", "/", "/", "|", "f", "i", "l", "e", "|">>) \o Plus(NotBar)
        \o Lit(<<"|">>) \o Plus(Digits) \o Lit(<<"|">>) \o Times(UpperHex, 32) \o Lit(<<"|", "/">>)

link_patterns ==
    << Http \o Lit(<<"p", "a", "n", ".", "b", "a", "i", "d", "u", ".", "c", "o", "m",
              "/", "s", "/">>) \o Plus(WordDash),
       Http \o Lit(<<"y", "u", "n", ".", "b", "a", "i", "d", "u", ".", "c", "o", "m",
              "/", "s", "/">>) \o Plus(WordDash),
       Http \o Lit(<<"w", "w", "w", ".", "a", "l", "i", "y", "u", "n", "d", "r", "i",
              "v", "e", ".", "c", "o", "m", "/", "s", "/">>) \o Plus(WordDash),
       Http \o Lit(<<"a", "l", "i", "y", "u", "n", "d", "r", "i", "v", "e", ".", "c",
              "o", "m", "/", "s", "/">>) \o Plus(WordDash),
       Http \o Lit(<<"q", "u", "a", "r", "k", ".", "c", "n", "/", "s", "/">>) \o Plus(WordDash),
       Http \o Lit(<<"c", "l", "o", "u", "d", ".", "1", "8", "9", ".", "c", "n", "/",
              "w", "e", "b", "/", "s", "h", "a", "r", "e", "?", "c", "o", "d",
              "e", "=">>) \o Plus(WordDash),
       Http \o Lit(<<"c", "l", "o", "u", "d", ".", "1", "8", "9", ".", "c", "n", "/",
              "t", "/">>) \o Plus(WordDash),
       Http \o Lit(<<"d", "r", "i", "v", "e", ".", "u", "c", ".", "c", "n", "/", "s",
              "/">>) \o Plus(WordDash),
       Http \o Lit(<<"c", "l", "o", "u", "d", ".", "1", "0", "0", "8", "6", ".", "c",
              "n", "/", "t", "/">>) \o Plus(WordDash),
       Http \o Lit(<<"1", "1", "5", ".", "c", "o", "m", "/", "l", "b", "/", "?", "s",
              "=">>) \o Plus(WordDash),
       Http \o Lit(<<"1", "1", "5", "c", "d", "n", ".", "c", "o", "m", "/", "s", "/">>) \o Plus(WordDash) \o Password \o Opt({"#"}),
       Http \o Lit(<<"a", "p", "i", ".", "p", "i", "k", "p", "a", "k", ".", "c", "o",
              "m", "/", "d", "r", "i", "v", "e", "/", "v", "1", "/", "f", "i",
              "l", "e", "s", "/">>) \o Plus(WordDash) \o Lit(<<"/", "s", "h", "a", "r", "e">>),
       Http \o Lit(<<"p", "i", "k", "p", "a", "k", ".", "c", "o", "m", "/", "s", "/">>) \o Plus(WordDash),
       Http \o Lit(<<"p", "a", "n", ".", "x", "u", "n", "l", "e", "i", ".", "c", "o",
              "m", "/", "s", "/">>) \o Plus(WordDash),
       Http \o Lit(<<"w", "w", "w", ".", "1", "2", "3", "p", "a", "n", ".", "c", "o",
              "m", "/", "s", "/">>) \o Plus(WordDash),
       StrictMagnet,
       StrictEd2k >>

\* The values of cloud_domains, in the order of the dictionary.
cloud_domains ==
    << <<"p", "a", "n", ".", "b", "a", "i", "d", "u", ".", "c", "o", "m">>,
       <<"y", "u", "n", ".", "b", "a", "i", "d", "u", ".", "c", "o", "m">>,
       <<"U+767E", "U+5EA6", "U+7F51", "U+76D8">>,
       <<"a", "l", "i", "y", "u", "n", "d", "r", "i", "v", "e", ".", "c", "o",
          "m">>,
       <<"U+963F", "U+91CC", "U+4E91", "U+76D8">>,
       <<"q", "u", "a", "r", "k", ".", "c", "n">>,
       <<"U+5938", "U+514B", "U+7F51", "U+76D8">>,
       <<"c", "l", "o", "u", "d", ".", "1", "8", "9", ".", "c", "n">>,
       <<"U+5929", "U+7FFC", "U+4E91", "U+76D8">>,
       <<"d", "r", "i", "v", "e", ".", "u", "c", ".", "c", "n">>,
       <<"U", "C", "U+7F51", "U+76D8">>,
       <<"c", "l", "o", "u", "d", ".", "1", "0", "0", "8", "6", ".", "c", "n">>,
       <<"U+79FB", "U+52A8", "U+4E91", "U+76D8">>,
       <<"1", "1", "5", ".", "c", "o", "m">>,
       <<"1", "1", "5", "c", "d", "n", ".", "c", "o", "m">>,
       <<"1", "1", "5", "U+7F51", "U+76D8">>,
       <<"p", "i", "k", "p", "a", "k", ".", "c", "o", "m">>,
       <<"P", "i", "k", "P", "a", "k">>,
       <<"p", "a", "n", ".", "x", "u", "n", "l", "e", "i", ".", "c", "o", "m">>,
       <<"U+8FC5", "U+96F7", "U+7F51", "U+76D8">>,
       <<"1", "2", "3", "p", "a", "n", ".", "c", "o", "m">>,
       <<"1", "2", "3", "U+7F51", "U+76D8">>,
       <<"m", "a", "g", "n", "e", "t", ":", "?", "x", "t", "=">>,
       <<"e", "d", "2", "k", ":", "/", "/">> >>

StartsWith(s, prefix) == Len(prefix) <= Len(s) /\ SubSeq(s, 1, Len(prefix)) = prefix
Contains(s, part) == \E i \in 1..(Len(s) + 1) : StartsWith(SubSeq(s, i, Len(s)), part)
IsCjk(c) == c \in Cjk

\* The pattern of the domain pass: https?://[\w\-]+\.?<name>[\w\-/.?&=%]+
DomainPattern(name) == Http \o Plus(WordDash) \o Opt({"."}) \o Lit(name) \o Plus(UrlTail)

\* The links the domain pass finds for one entry of cloud_domains.  A name with
\* characters that are not ASCII is searched only when the content holds it,
\* and then by its Chinese characters alone.
DomainLinks(domain, content) ==
    IF StartsWith(domain, <<"m", "a", "g", "n", "e", "t", ":", "?", "x", "t", "=">>)
          \/ StartsWith(domain, <<"e", "d", "2", "k", ":", "/", "/">>)
          \/ Contains(domain, <<"/", "s", "/">>)
    THEN {}
    ELSE IF \E i \in 1..Len(domain) : IsCjk(domain[i])
         THEN IF Contains(content, domain)
              THEN FindAll(DomainPattern(SelectSeq(domain, IsCjk)), content, 1)
              ELSE {}
         ELSE FindAll(DomainPattern(domain), content, 1)

\* magnet:\?[^\s"\']+ and ed2k://[^\s"\']+
magnet_pattern == Lit(<<"m", "a", "g", "n", "e", "t", ":", "?">>) \o Plus(NotSpaceQuote)
ed2k_pattern == Lit(<<"e", "d", "2", "k", ":", "/", "/">>) \o Plus(NotSpaceQuote)

FindEach(patterns, content) ==
    UNION {FindAll(patterns[i], content, 1) : i \in 1..Len(patterns)}

ExtractSLinks(content) == FindEach(s_link_patterns, content)

ExtractLinks(content) ==
    ExtractSLinks(content)
        \cup FindEach(link_patterns, content)
        \cup UNION {DomainLinks(cloud_domains[i], content) : i \in 1..Len(cloud_domains)}
        \cup FindAll(magnet_pattern, content, 1)
        \cup FindAll(ed2k_pattern, content, 1)

\* Contents of feed entries: the text of a share post, a magnet link with a
\* parameter, a link in upper case followed by a comma, a text without a link
\* to a cloud drive.
ShareText ==
    <<"s", "h", "a", "r", "e", ":", Space, "h", "t", "t", "p", "s", ":", "/",
      "/", "p", "a", "n", ".", "b", "a", "i", "d", "u", ".", "c", "o", "m", "/",
      "s", "/", "1", "a", "b", "c", "X", "Y", "Z", Space, "m", "o", "r", "e",
      Space, "t", "e", "x", "t">>

ShareLink ==
    <<"h", "t", "t", "p", "s", ":", "/", "/", "p", "a", "n", ".", "b", "a", "i",
      "d", "u", ".", "c", "o", "m", "/", "s", "/", "1", "a", "b", "c", "X", "Y",
      "Z">>

MagnetText ==
    <<"m", "a", "g", "n", "e", "t", ":", "?", "x", "t", "=", "u", "r", "n", ":",
      "b", "t", "i", "h", ":", "0", "1", "2", "3", "4", "5", "6", "7", "8", "9",
      "a", "b", "c", "d", "e", "f", "0", "1", "2", "3", "4", "5", "6", "7", "8",
      "9", "A", "B", "C", "D", "E", "F", "0", "1", "2", "3", "4", "5", "6", "7",
      "&", "d", "n", "=", "f", "o", "o">>

UpperText ==
    <<"s", "e", "e", Space, "H", "T", "T", "P", "S", ":", "/", "/", "W", "W",
      "W", ".", "A", "L", "I", "Y", "U", "N", "D", "R", "I", "V", "E", ".", "C",
      "O", "M", "/", "S", "/", "a", "-", "1", ",", Space, "o", "k">>

PlainText ==
    <<"n", "o", Space, "l", "i", "n", "k", ":", Space, "h", "t", "t", "p", ":",
      "/", "/", "e", "x", "a", "m", "p", "l", "e", ".", "c", "o", "m", "/", "t",
      "/", "1">>

SampleTexts == {ShareText, MagnetText, UpperText, PlainText}

\* No text: the specification draws the links of the documents themselves.
NoText == <<>>

VARIABLES
    clocked,              \* history: whether the sleeps of the tasks are recorded
    entry_text,           \* the content of the feed entries, where the links are extracted from a text
    web_links,            \* the link strings the documents of the feeds can hold
    rss_feeds,            \* config: the feed sources (a set of distinct feeds)
    concurrent_requests,  \* config: the configured concurrency
    continuous,           \* the argument of run
    all_links_file,       \* the text of the link store file
    crawled_links,        \* self.crawled_links
    failed_feeds,         \* self.failed_feeds
    snapshots,            \* the timestamp files written, one set of links each
    failed_log,           \* failed_feeds.log: its sections, in order
    pc,                   \* where the orchestrator is in run
    cycle,                \* the number of the current pass of "while True"
    all_new_links,        \* run's local all_new_links
    task,                 \* per feed: the state of its future
    attempt,              \* per feed: the local attempt of _crawl_single_feed
    new_links,            \* per feed: the local new_links of _crawl_single_feed
    merged,               \* per feed: as_completed has yielded its future
    extracted,            \* history: per feed, the links of its successful parse
    found,                \* history: the links of the merged successful parses
    returned_links,       \* history: the links the tasks of the cycle returned
    cycle_start_links,    \* history: crawled_links when the cycle started
    loaded_links,         \* history: the links loaded by __init__
    saved_links,          \* history: every link ever passed to _save_links
    prev_found,           \* history: the links found in the previous cycle
    prev_clean,           \* history: the previous cycle had no failed attempt
    parse_calls,          \* history: per feed, the calls of feedparser.parse this cycle
    slept                 \* history: per feed, what the task slept around its latest attempt

config == <<clocked, entry_text, web_links, rss_feeds, concurrent_requests, continuous>>
store == <<all_links_file, crawled_links, snapshots, saved_links>>
tasks == <<task, attempt, new_links, extracted, parse_calls, slept>>
history == <<cycle_start_links, loaded_links, prev_found, prev_clean>>
collected == <<found, returned_links>>
vars == <<config, store, failed_feeds, failed_log, pc, cycle, all_new_links, tasks,
          merged, history, collected>>

\* A task is in flight from the moment a worker thread takes it until it
\* returns or raises.
InFlight == {f \in rss_feeds : task[f] = "running"}
Queued == {f \in rss_feeds : task[f] = "queued"}
Completed == {f \in rss_feeds : task[f] \in {"returned", "raised"}}

\* time.sleep(random.uniform(1, 3)): the delay before every call of the parser,
\* in whole seconds.
MinJitter == 1
MaxJitter == 3
Jitters == MinJitter..MaxJitter

\* time.sleep(5) after a failure with the remote-closed signature.
CoolDown == 5

\* time.sleep(2 * attempt) before the next attempt.
BackoffFactor == 2

\* What a task slept around one attempt: the delay before the call, whether
\* the failure had the remote-closed signature, the cool-down and the backoff
\* after the call.
Sleeps(jitter, closed, cooldown, backoff) ==
    [jitter |-> jitter, closed |-> closed, cooldown |-> cooldown, backoff |-> backoff]
NoSleep == Sleeps(0, FALSE, 0, 0)

\* No attempt of the cycle has failed: every task returned from its first attempt.
Clean == \A f \in rss_feeds : task[f] = "returned" /\ attempt[f] = 0

(***************************************************************************)
(* __init__: the configuration is read, the link store is loaded.  The     *)
(* store file was written by earlier runs of the program.                  *)
(***************************************************************************)
StoredFiles == {WriteLinks(SubSeq(LinkPool, 1, n)) : n \in 0..Min(MaxStored, Len(LinkPool))}

\* The state after __init__, when _load_existing_links left loaded in
\* crawled_links.
InitLoaded(web, feeds, conc, cont, text, loaded) ==
    /\ web_links = web
    /\ rss_feeds = feeds
    /\ concurrent_requests = conc
    /\ continuous = cont
    /\ all_links_file = text
    /\ crawled_links = loaded
    /\ failed_feeds = {}
    /\ snapshots = <<>>
    /\ failed_log = <<>>
    /\ pc = "start"
    /\ cycle = 0
    /\ all_new_links = {}
    /\ task = [f \in FeedPool |-> "none"]
    /\ attempt = [f \in FeedPool |-> 0]
    /\ new_links = [f \in FeedPool |-> {}]
    /\ merged = [f \in FeedPool |-> FALSE]
    /\ extracted = [f \in FeedPool |-> {}]
    /\ found = {}
    /\ returned_links = {}
    /\ cycle_start_links = loaded
    /\ loaded_links = loaded
    /\ saved_links = {}
    /\ prev_found = {}
    /\ prev_clean = FALSE
    /\ parse_calls = [f \in FeedPool |-> 0]
    /\ slept = [f \in FeedPool |-> NoSleep]

\* Neither the text of the entries nor the sleeps of the tasks are followed.
Plain == clocked = FALSE /\ entry_text = NoText

\* The state after __init__ over a store file that is read to its end.
InitWith(web, feeds, conc, cont, text) ==
    /\ Plain
    /\ InitLoaded(web, feeds, conc, cont, text, LoadedLinks(text))

Init ==
    \E n \in FeedCounts, conc \in 1..MaxConc, cont \in BOOLEAN, text \in StoredFiles :
        InitWith(Links, 1..n, conc, cont, text)

(***************************************************************************)
(* run, the orchestrator thread.                                           *)
(***************************************************************************)

\* Mutant: the hard cap is forgotten.
WorkersUncapped == concurrent_requests

\* concurrent_workers = min(self.concurrent_requests, 3)
Workers == Min(concurrent_requests, HardCap)

\* The top of "while True" up to the submission of every task.  The executor
\* refuses max_workers <= 0 with a ValueError, which leaves run.  The tasks are
\* submitted in the order of rss_feeds and touch nothing before a worker
\* thread takes them, so their submission is one step.
StartCycle ==
    /\ pc = "start"
    /\ cycle < MaxCycles
    /\ cycle' = cycle + 1
    /\ all_new_links' = {}
    /\ cycle_start_links' = crawled_links
    /\ prev_found' = found
    /\ found' = {}
    /\ returned_links' = {}
    /\ prev_clean' = (cycle >= 1 /\ Clean)
    /\ IF Workers <= 0
       THEN /\ pc' = "aborted"
            /\ UNCHANGED <<tasks, merged>>
       ELSE /\ pc' = "collect"
            /\ task' = [f \in FeedPool |-> IF f \in rss_feeds THEN "queued" ELSE "none"]
            /\ attempt' = [f \in FeedPool |-> 0]
            /\ new_links' = [f \in FeedPool |-> {}]
            /\ extracted' = [f \in FeedPool |-> {}]
            /\ parse_calls' = [f \in FeedPool |-> 0]
            /\ slept' = [f \in FeedPool |-> NoSleep]
            /\ merged' = [f \in FeedPool |-> FALSE]
    /\ UNCHANGED <<config, store, failed_feeds, failed_log, loaded_links>>

\* Mutant: the error of a future is swallowed without a record.
MergeRaisedDropped(f) == failed_feeds

\* except Exception: self.failed_feeds.add(feed_url)
MergeRaised(f) == failed_feeds \cup {f}

\* One pass of "for future in as_completed(...)": the result of a completed
\* future is merged, or its source is recorded as failed.  The future and its
\* result are not read again.
Merge(f) ==
    /\ pc = "collect"
    /\ f \in Completed
    /\ ~merged[f]
    /\ merged' = [merged EXCEPT ![f] = TRUE]
    /\ IF task[f] = "returned"
       THEN /\ all_new_links' = all_new_links \cup new_links[f]
            /\ UNCHANGED failed_feeds
       ELSE /\ failed_feeds' = MergeRaised(f)
            /\ UNCHANGED all_new_links
    /\ found' = found \cup extracted[f]
    /\ new_links' = [new_links EXCEPT ![f] = {}]
    /\ extracted' = [extracted EXCEPT ![f] = {}]
    /\ UNCHANGED <<config, store, failed_log, pc, cycle, task, attempt, parse_calls, slept,
                   history, returned_links>>

\* Mutant: the with block is left without waiting for the tasks.
PoolDrainedEarly ==
    /\ pc = "collect"
    /\ pc' = "save"
    /\ UNCHANGED <<config, store, failed_feeds, failed_log, cycle, all_new_links, tasks,
                   merged, history, collected>>

\* as_completed is exhausted and the executor is shut down: the with block ends.
PoolDrained ==
    /\ pc = "collect"
    /\ \A f \in rss_feeds : merged[f]
    /\ pc' = "save"
    /\ UNCHANGED <<config, store, failed_feeds, failed_log, cycle, all_new_links, tasks,
                   merged, history, collected>>

\* Mutant: the link store is opened with 'w' and rewritten.
Rewritten(order) == WriteLinks(order)

\* with open(self.all_links_file, 'a'): the links are appended, one per line.
Appended(order) == all_links_file \o WriteLinks(order)

\* Mutant: the links written are not added to the seen set.
RecordedNothing(links) == crawled_links

\* self.crawled_links.add(link) for every link written.
Recorded(links) == crawled_links \cup links

\* _save_links(all_new_links)
SaveLinks ==
    /\ pc = "save"
    /\ pc' = "log"
    /\ IF all_new_links = {}
       THEN UNCHANGED store
       ELSE \E order \in Orders(all_new_links) :
                /\ snapshots' = Append(snapshots, all_new_links)
                /\ all_links_file' = Appended(order)
                /\ crawled_links' = Recorded(all_new_links)
                /\ saved_links' = saved_links \cup all_new_links
    /\ UNCHANGED <<config, failed_feeds, failed_log, cycle, all_new_links, tasks, merged,
                   history, collected>>

\* _save_links when the disk refuses a write (no space left, the file cannot be
\* opened).  Either the snapshot file fails and nothing was written, or the
\* snapshot is complete and the append to the link store fails at some link:
\* the links before it were passed to f.write and added to crawled_links, and
\* the buffer may have reached the file only in part.  Neither _save_links nor
\* run nor the main block has a handler, so the error ends the process.
SaveFails ==
    /\ pc = "save"
    /\ all_new_links # {}
    /\ pc' = "crashed"
    /\ \/ UNCHANGED store
       \/ \E order \in Orders(all_new_links) :
              \E added \in 0..(Len(order) - 1) :
                 \E flushed \in 0..added :
                    /\ snapshots' = Append(snapshots, all_new_links)
                    /\ all_links_file' = Appended(SubSeq(order, 1, flushed))
                    /\ crawled_links' = Recorded({order[i] : i \in 1..added})
                    /\ saved_links' = saved_links \cup all_new_links
    /\ UNCHANGED <<config, failed_feeds, failed_log, cycle, all_new_links, tasks, merged,
                   history, collected>>

\* "if self.failed_feeds:" a section is appended to failed_feeds.log; then run
\* returns (single-shot) or goes to sleep (continuous).
LogFailures ==
    /\ pc = "log"
    /\ failed_log' = IF failed_feeds # {}
                     THEN Append(failed_log, [cycle |-> cycle, feeds |-> failed_feeds])
                     ELSE failed_log
    /\ pc' = IF continuous THEN "sleep" ELSE "returned"
    /\ UNCHANGED <<config, store, failed_feeds, cycle, all_new_links, tasks, merged,
                   history, collected>>

\* time.sleep(self.interval), then the next pass of "while True".
Sleep ==
    /\ pc = "sleep"
    /\ pc' = "start"
    /\ UNCHANGED <<config, store, failed_feeds, failed_log, cycle, all_new_links, tasks,
                   merged, history, collected>>

(***************************************************************************)
(* _crawl_single_feed, the body of one task on a worker thread.            *)
(***************************************************************************)

\* A worker thread takes the oldest queued task; at most Workers threads exist.
TaskStart(f) ==
    /\ pc = "collect"
    /\ f \in Queued
    /\ \A g \in Queued : f <= g
    /\ Cardinality(InFlight) < Workers
    /\ task' = [task EXCEPT ![f] = "running"]
    /\ UNCHANGED <<config, store, failed_feeds, failed_log, pc, cycle, all_new_links,
                   attempt, new_links, extracted, parse_calls, slept, merged, history,
                   collected>>

\* Mutant: every extracted link is taken as new.
NewOfUnfiltered(links) == links

\* "if link not in self.crawled_links: new_links.add(link)"
NewOf(links) == {l \in links : l \notin crawled_links}

\* Mutant: a failed attempt is not counted.
SameAttempt(a) == a

\* attempt += 1
NextAttempt(a) == a + 1

\* Mutant: the loop allows one attempt more.
LoopContinuesOnceMore(a) == a <= RetryCount

\* while attempt < retry_count
LoopContinues(a) == a < RetryCount

\* The state of the future after a failed attempt: the loop goes on, or it ends
\* and line 292 returns new_links.
AfterFailure(a) == IF LoopContinues(a) THEN "running" ELSE "returned"

\* History: the set a task returns is noted when it returns.
ReturnNoted(f) ==
    returned_links' = IF task'[f] = "returned"
                      THEN returned_links \cup new_links'[f]
                      ELSE returned_links

\* Mutant: a success leaves the failure of an earlier cycle in place.
SuccessKeeps(f) == failed_feeds

\* "if feed_url in self.failed_feeds: self.failed_feeds.remove(feed_url)"
SuccessClears(f) == failed_feeds \ {f}

\* Mutant: the backoff is slept after the last failed attempt too.
BackoffAlways(a) == BackoffFactor * a

\* "if attempt < retry_count: time.sleep(2 * attempt)", attempt already counted.
Backoff(a) == IF LoopContinues(a) THEN BackoffFactor * a ELSE 0

\* "if ... in error_msg: time.sleep(5)"
CoolDownOf(closed) == IF closed THEN CoolDown ELSE 0

\* The delays the random generator can give; where the sleeps are not
\* recorded one delay stands for all of them.
JitterChoices == IF clocked THEN Jitters ELSE {MinJitter}

\* History: the sleeps of the attempt of f are noted.
SleptNoted(f, sleeps) ==
    slept' = IF clocked THEN [slept EXCEPT ![f] = sleeps] ELSE slept

CanAttempt(f) ==
    /\ pc = "collect"
    /\ task[f] = "running"
    /\ LoopContinues(attempt[f])
    /\ parse_calls[f] < MaxCalls

\* An attempt whose parse succeeds: the links of every entry are extracted and
\* filtered, the source leaves failed_feeds, new_links is returned.
AttemptOk(f) ==
    /\ CanAttempt(f)
    /\ \E links \in SUBSET web_links :
          /\ new_links' = [new_links EXCEPT ![f] = @ \cup NewOf(links)]
          /\ extracted' = [extracted EXCEPT ![f] = links]
    /\ \E jitter \in JitterChoices : SleptNoted(f, Sleeps(jitter, FALSE, 0, 0))
    /\ failed_feeds' = SuccessClears(f)
    /\ task' = [task EXCEPT ![f] = "returned"]
    /\ parse_calls' = [parse_calls EXCEPT ![f] = @ + 1]
    /\ UNCHANGED <<config, store, failed_log, pc, cycle, all_new_links, attempt, merged,
                   history, found>>
    /\ ReturnNoted(f)

\* An attempt whose parse reports feed.bozo (a malformed document, a transport
\* failure; with the remote-closed signature the task sleeps 5 more).  The
\* attempt is counted, the task sleeps 2 * attempt when another attempt follows.
AttemptBozo(f) ==
    /\ CanAttempt(f)
    /\ \E closed \in BOOLEAN, jitter \in JitterChoices :
          /\ attempt' = [attempt EXCEPT ![f] = NextAttempt(@)]
          /\ task' = [task EXCEPT ![f] = AfterFailure(NextAttempt(attempt[f]))]
          /\ SleptNoted(f, Sleeps(jitter, closed, CoolDownOf(closed),
                                  Backoff(NextAttempt(attempt[f]))))
    /\ parse_calls' = [parse_calls EXCEPT ![f] = @ + 1]
    /\ UNCHANGED <<config, store, failed_feeds, failed_log, pc, cycle, all_new_links,
                   new_links, extracted, merged, history, found>>
    /\ ReturnNoted(f)

\* An attempt that raises inside the try block: in the parse, or while the
\* entries are iterated, after the links of the earlier entries were added to
\* new_links.  The handler counts the attempt and, after the last one, adds the
\* source to failed_feeds.
AttemptRaise(f) ==
    /\ CanAttempt(f)
    /\ \E partial \in SUBSET web_links, closed \in BOOLEAN, jitter \in JitterChoices :
          /\ new_links' = [new_links EXCEPT ![f] = @ \cup NewOf(partial)]
          /\ SleptNoted(f, Sleeps(jitter, closed, CoolDownOf(closed),
                                  Backoff(NextAttempt(attempt[f]))))
    /\ attempt' = [attempt EXCEPT ![f] = NextAttempt(@)]
    /\ task' = [task EXCEPT ![f] = AfterFailure(NextAttempt(attempt[f]))]
    /\ failed_feeds' = IF LoopContinues(NextAttempt(attempt[f]))
                       THEN failed_feeds
                       ELSE failed_feeds \cup {f}
    /\ parse_calls' = [parse_calls EXCEPT ![f] = @ + 1]
    /\ UNCHANGED <<config, store, failed_log, pc, cycle, all_new_links, extracted, merged,
                   history, found>>
    /\ ReturnNoted(f)

\* An attempt whose exception handler raises itself (a print to a closed or
\* non-UTF-8 stdout): the error leaves _crawl_single_feed and is stored in the
\* future.
AttemptCrash(f) ==
    /\ CanAttempt(f)
    /\ task' = [task EXCEPT ![f] = "raised"]
    /\ \E jitter \in JitterChoices : SleptNoted(f, Sleeps(jitter, FALSE, 0, 0))
    /\ parse_calls' = [parse_calls EXCEPT ![f] = @ + 1]
    /\ UNCHANGED <<config, store, failed_feeds, failed_log, pc, cycle, all_new_links,
                   attempt, new_links, extracted, merged, history, collected>>

TaskStep(f) ==
    \/ TaskStart(f)
    \/ AttemptOk(f)
    \/ AttemptBozo(f)
    \/ AttemptRaise(f)
    \/ AttemptCrash(f)

Orchestrator ==
    \/ StartCycle
    \/ \E f \in FeedPool : Merge(f)
    \/ PoolDrained
    \/ SaveLinks
    \/ LogFailures
    \/ Sleep

Next ==
    \/ Orchestrator
    \/ \E f \in FeedPool : TaskStep(f)

Spec == Init /\ [][Next]_vars

\* Worker threads and the orchestrator thread are operating-system threads:
\* each one that can take a step eventually takes one.
Fairness ==
    /\ WF_vars(Orchestrator)
    /\ \A f \in FeedPool : WF_vars(TaskStep(f))

\* Which links the documents hold has no bearing on how a cycle proceeds: the
\* fair specification starts without a store file and with one link string.
FairInit ==
    \E n \in FeedCounts, conc \in 1..MaxConc, cont \in BOOLEAN :
        InitWith({LinkPool[1]}, 1..n, conc, cont, <<>>)

FairSpec == FairInit /\ [][Next]_vars /\ Fairness

\* Every configuration: also a concurrency of zero, and more feed sources than
\* the hard cap (their documents hold no link).
InitAnyConfig ==
    \/ Init
    \/ \E conc \in 0..(HardCap + 1) :
           InitWith({}, 1..(HardCap + 1), conc, FALSE, <<>>)

SpecAnyConfig == InitAnyConfig /\ [][Next]_vars

\* The disk may refuse a write of the saving step.
NextIO ==
    \/ Next
    \/ SaveFails

InitIO ==
    \E n \in FeedCounts, conc \in 1..MaxConc, cont \in BOOLEAN :
        InitWith(Links, 1..n, conc, cont, <<>>)

SpecIO == InitIO /\ [][NextIO]_vars

\* Store files with one record that cannot be decoded, before, between or
\* after the records of earlier runs.
DamagedFiles ==
    {WriteLinks(SubSeq(LinkPool, 1, n) \o <<BadRecord>> \o SubSeq(LinkPool, n + 1, Len(LinkPool))) :
        n \in 0..Len(LinkPool)}

InitLoad ==
    \E n \in FeedCounts, cont \in BOOLEAN, text \in StoredFiles \cup DamagedFiles :
        \E loaded \in LoadOutcomes(text) :
            /\ Plain
            /\ InitLoaded({LinkPool[1]}, 1..n, 1, cont, text, loaded)

SpecLoad == InitLoad /\ [][Next]_vars

\* The entries of the documents hold one of the sample texts; the links the
\* crawl can find are those _extract_links returns from it.
InitExtract ==
    \E content \in SampleTexts, n \in FeedCounts, conc \in 1..MaxConc, cont \in BOOLEAN :
        /\ clocked = FALSE
        /\ entry_text = content
        /\ InitLoaded(ExtractLinks(content), 1..n, conc, cont, <<>>, {})

SpecExtract == InitExtract /\ [][Next]_vars

\* The sleeps of the tasks are recorded; the documents hold no link.
InitTimed ==
    \E n \in FeedCounts, conc \in 1..MaxConc, cont \in BOOLEAN :
        /\ clocked = TRUE
        /\ entry_text = NoText
        /\ InitLoaded({}, 1..n, conc, cont, <<>>, {})

SpecTimed == InitTimed /\ [][Next]_vars

(***************************************************************************)
(* The claims.                                                             *)
(***************************************************************************)

CycleEnded == pc \in {"sleep", "returned"}

\* The task of f has returned after every attempt failed.
Exhausted(f) == task[f] = "returned" /\ attempt[f] = RetryCount

\* The task of f has returned from a successful attempt.
Succeeded(f) == task[f] = "returned" /\ attempt[f] < RetryCount

\* C1: a link that is in crawled_links when a cycle starts is in no task's
\* new_links and not in the set all_new_links that the cycle passes to
\* _save_links; until _save_links runs, crawled_links is the set the cycle
\* started with.
C1_SeenNeverNew ==
    /\ all_new_links \cap cycle_start_links = {}
    /\ \A f \in rss_feeds : new_links[f] \cap cycle_start_links = {}
    /\ pc \in {"collect", "save"} => crawled_links = cycle_start_links

\* A cycle reaches _save_links with new links after a feed yielded a link
\* that was already in the store.
C1_Witness ==
    /\ pc = "save"
    /\ all_new_links # {}
    /\ found \cap cycle_start_links # {}

\* C2: when a cycle has ended, every source whose attempts all failed is in
\* failed_feeds, and failed_feeds.log holds exactly one section of that cycle,
\* which lists the source.
C2_ExhaustedIsRecorded ==
    CycleEnded =>
        \A f \in rss_feeds :
            Exhausted(f) =>
                /\ f \in failed_feeds
                /\ Cardinality({i \in DOMAIN failed_log : failed_log[i].cycle = cycle}) = 1
                /\ \E i \in DOMAIN failed_log :
                       failed_log[i].cycle = cycle /\ f \in failed_log[i].feeds

\* C3: a task whose attempts all failed returns the empty set.
C3_ExhaustedReturnsNothing ==
    \A f \in rss_feeds : (Exhausted(f) /\ ~merged[f]) => new_links[f] = {}

\* C4: a task that succeeds within the attempt budget returns the new links of
\* its successful attempt, and its source is not in failed_feeds when the cycle
\* has ended.
C4_SuccessReturnsItsLinks ==
    \A f \in rss_feeds :
        Succeeded(f) =>
            /\ ~merged[f] => new_links[f] = NewOf(extracted[f])
            /\ CycleEnded => f \notin failed_feeds

\* The second of two cycles without a failed attempt, the feeds holding the
\* links they held in the first.
SameContentAgain == Clean /\ prev_clean /\ found = prev_found

\* C5: a cycle without a failed attempt passes to _save_links exactly the
\* links found in the feeds that were not in the store; when the cycle before
\* it had no failed attempt either and found the same links, it passes the
\* empty set, and _save_links writes no snapshot and appends nothing.
C5_SecondCycleFindsNothing ==
    /\ [](pc = "save" /\ Clean => all_new_links = found \ cycle_start_links)
    /\ [](pc = "save" /\ SameContentAgain => all_new_links = {})
    /\ [][pc = "save" /\ SameContentAgain =>
             /\ snapshots' = snapshots
             /\ all_links_file' = all_links_file
             /\ crawled_links' = crawled_links]_vars

\* Two sources, the second cycle finds the links of the first again, and the
\* first cycle saved them.
C5_Witness ==
    /\ pc = "log"
    /\ cycle = 2
    /\ Cardinality(rss_feeds) = 2
    /\ SameContentAgain
    /\ found # {}
    /\ saved_links = found
    /\ Len(snapshots) = 1

\* C6: the error of a raised future adds its source to failed_feeds and
\* changes nothing else; when the pool has drained every task has returned or
\* raised and was merged, every raised source is in failed_feeds and
\* all_new_links is the union of the sets the other tasks returned.
C6_RaisedTaskIsIsolated ==
    /\ [][\A f \in rss_feeds :
             (task[f] = "raised" /\ ~merged[f] /\ merged'[f]) =>
                 /\ failed_feeds' = failed_feeds \cup {f}
                 /\ all_new_links' = all_new_links
                 /\ task' = task
                 /\ pc' = pc]_vars
    /\ [][\A f \in rss_feeds :
             (task[f] = "running" /\ task'[f] = "raised") =>
                 /\ \A g \in rss_feeds \ {f} : task'[g] = task[g] /\ new_links'[g] = new_links[g]
                 /\ failed_feeds' = failed_feeds]_vars
    /\ [](pc = "save" =>
             /\ \A f \in rss_feeds : f \in Completed /\ merged[f]
             /\ \A f \in rss_feeds : task[f] = "raised" => f \in failed_feeds
             /\ all_new_links = returned_links)

\* The pool has drained: one task raised, another one returned links, and the
\* raised source alone is recorded as failed.
C6_Witness ==
    /\ pc = "save"
    /\ \E f \in rss_feeds : task[f] = "raised" /\ failed_feeds = {f}
    /\ \E g \in rss_feeds : task[g] = "returned"
    /\ all_new_links # {}

\* At most min(concurrent_requests, 3) tasks are in flight, and once a cycle
\* has started every source has its task.
CapAndOneTaskEach ==
    /\ Cardinality(InFlight) <= Min(concurrent_requests, HardCap)
    /\ cycle >= 1 => \A f \in rss_feeds : task[f] # "none"

\* C7 as stated: the cap holds and every source gets its task, for every
\* configured concurrency.
C7_CapForEveryConfig == CapAndOneTaskEach

\* C7 amended: the cap holds and every source gets its task, for every
\* configured concurrency that is a positive integer.
C7_CapForPositiveConfig == concurrent_requests >= 1 => CapAndOneTaskEach

\* The hard cap binds: the configuration asks for more than 3 workers, 3 tasks
\* are in flight and another one waits.
C7_Witness ==
    /\ concurrent_requests > HardCap
    /\ Cardinality(InFlight) = HardCap
    /\ Queued # {}

\* C8: reloading the link store file gives the seen set of the running
\* process, which is the links loaded at startup and every link passed to
\* _save_links.
C8_ReloadRoundTrip ==
    /\ LoadedLinks(all_links_file) = crawled_links
    /\ crawled_links = loaded_links \cup saved_links

\* C9: no step removes a link from crawled_links, and the lines of the link
\* store file before a step are the first lines of the file after it.
C9_StoreOnlyGrows ==
    [][/\ crawled_links \subseteq crawled_links'
       /\ \/ all_links_file' = all_links_file
          \/ IsPrefix(FileLines(all_links_file, <<>>), FileLines(all_links_file', <<>>))]_vars

\* Two cycles have each appended links to the store file.
C9_Witness ==
    /\ Len(snapshots) = 2
    /\ Len(FileLines(all_links_file, <<>>)) >= 3

C11_WriteFailureContained == pc # "crashed"

\* The links of the records of a store file that can be read.
ReadableLinks(text) ==
    LET lines == FileLines(text, <<>>)
    IN {Strip(lines[i]) : i \in {j \in 1..Len(lines) : Readable(lines[j]) /\ Strip(lines[j]) # <<>>}}

\* C12: loading skips the record that cannot be read and nothing else: as long
\* as the store file is the one found at startup, the links loaded are those of
\* all its readable records, the ones after the unreadable record included.
C12_LoadSkipsOnlyUnreadable ==
    snapshots = <<>> => loaded_links = ReadableLinks(all_links_file)

\* C13: from the text "share: https://pan.baidu.com/s/1abcXYZ more text"
\* _extract_links returns the link https://pan.baidu.com/s/1abcXYZ and no other
\* string, and a crawl of entries with this text finds this link alone.
C13_ShareTextGivesOneLink ==
    entry_text = ShareText =>
        /\ web_links = {ShareLink}
        /\ found \subseteq {ShareLink}
        /\ \A f \in rss_feeds : extracted[f] \subseteq {ShareLink}

\* A cycle over entries with the share text has found the link.
C13_Witness ==
    /\ entry_text = ShareText
    /\ pc = "save"
    /\ found = {ShareLink}
    /\ all_new_links = {ShareLink}

\* The task of f ended in failure this cycle: its attempts all failed, or an
\* exception left it.
FailedThisCycle(f) == Exhausted(f) \/ task[f] = "raised"

\* C14: when a cycle has ended, every source in failed_feeds, and every source
\* in the section of failed_feeds.log written for the cycle, failed in this
\* cycle; a source that succeeded in the cycle is in neither.
C14_FailuresOfThisCycleOnly ==
    CycleEnded =>
        /\ \A f \in failed_feeds : f \in rss_feeds /\ FailedThisCycle(f)
        /\ \A i \in DOMAIN failed_log :
               failed_log[i].cycle = cycle =>
                   \A f \in failed_log[i].feeds : FailedThisCycle(f)
        /\ \A f \in rss_feeds :
               Succeeded(f) =>
                   /\ f \notin failed_feeds
                   /\ \A i \in DOMAIN failed_log :
                          failed_log[i].cycle = cycle => f \notin failed_log[i].feeds

\* The second cycle has ended: a source that was logged as failed in the first
\* cycle succeeded and is no longer recorded, another one failed and is.
C14_Witness ==
    /\ CycleEnded
    /\ cycle = 2
    /\ Len(failed_log) = 2
    /\ \E f \in rss_feeds :
           /\ f \in failed_log[1].feeds
           /\ Succeeded(f)
           /\ f \notin failed_feeds
    /\ failed_feeds # {}

\* The task of f makes a call of the parser in this step.
Parses(f) == parse_calls'[f] = parse_calls[f] + 1

\* C15: a task calls the parser at most 3 times in a cycle, one call per step
\* and only while it runs; a call that fails counts exactly one attempt, a call
\* that succeeds counts none and ends the task, and a task that has returned or
\* raised calls the parser no more.
C15_AttemptBudget ==
    /\ [](\A f \in rss_feeds : parse_calls[f] <= RetryCount)
    /\ [][\A f \in rss_feeds :
             /\ parse_calls'[f] # parse_calls[f] =>
                    \/ Parses(f) /\ task[f] = "running" /\ parse_calls[f] = attempt[f]
                    \/ pc = "start"
             /\ (Parses(f) /\ task'[f] = "returned" /\ attempt'[f] < RetryCount) =>
                    attempt'[f] = attempt[f]
             /\ (Parses(f) /\ (task'[f] = "running" \/ attempt'[f] = RetryCount)) =>
                    attempt'[f] = attempt[f] + 1
             /\ (task[f] \in {"returned", "raised"} /\ pc # "start") =>
                    parse_calls'[f] = parse_calls[f] /\ attempt'[f] = attempt[f]]_vars

\* A task has made its third call of the parser after two failed ones, and
\* that call succeeded.
C15_Witness ==
    \E f \in rss_feeds :
        /\ parse_calls[f] = RetryCount
        /\ attempt[f] = RetryCount - 1
        /\ task[f] = "returned"

\* The latest attempt of the task of f failed and was counted.
LastAttemptFailed(f) ==
    \/ task[f] = "running" /\ attempt[f] >= 1
    \/ Exhausted(f)

\* C16: every attempt is preceded by a delay between 1 and 3; after failed
\* attempt N the task sleeps a backoff of 2 * N when N < 3 and none when N = 3,
\* and a cool-down of 5 exactly when the failure had the remote-closed
\* signature; a successful attempt is followed by neither.
C16_DelaySchedule ==
    \A f \in rss_feeds :
        parse_calls[f] >= 1 =>
            /\ slept[f].jitter >= 1 /\ slept[f].jitter <= 3
            /\ LastAttemptFailed(f) =>
                   /\ slept[f].backoff = IF attempt[f] < 3 THEN 2 * attempt[f] ELSE 0
                   /\ slept[f].cooldown = IF slept[f].closed THEN 5 ELSE 0
            /\ Succeeded(f) => slept[f].backoff = 0 /\ slept[f].cooldown = 0

\* One task waits for its third attempt after a failure with the remote-closed
\* signature, another one has failed its third attempt.
C16_Witness ==
    /\ \E f \in rss_feeds :
           /\ task[f] = "running"
           /\ attempt[f] = 2
           /\ slept[f].closed
           /\ slept[f].cooldown = 5
           /\ slept[f].backoff = 4
    /\ \E g \in rss_feeds : Exhausted(g) /\ slept[g].backoff = 0

\* The order of the steps of run.
RunOrder ==
    {<<"start", "collect">>, <<"collect", "save">>, <<"save", "log">>,
     <<"log", "sleep">>, <<"log", "returned">>, <<"sleep", "start">>}

C18_SingleWriter ==
    /\ [](pc = "collect" => crawled_links = cycle_start_links)
    /\ [][crawled_links' # crawled_links => pc = "save"]_vars
    /\ [][(InFlight # {} \/ Queued # {}) => crawled_links' = crawled_links]_vars
    /\ [][all_new_links' # all_new_links =>
             \/ pc = "start"
             \/ \E f \in rss_feeds :
                    /\ task[f] = "returned" /\ ~merged[f] /\ merged'[f]
                    /\ all_new_links' = all_new_links \cup new_links[f]]_vars
    /\ [][\A f \in rss_feeds :
             parse_calls'[f] = parse_calls[f] + 1 =>
                 /\ \A g \in rss_feeds \ {f} : new_links'[g] = new_links[g]
                 /\ all_new_links' = all_new_links
                 /\ crawled_links' = crawled_links]_vars

\* The result of one task is merged while another task, in flight, holds links
\* of its own.
C18_Witness ==
    /\ pc = "collect"
    /\ all_new_links # {}
    /\ \E g \in InFlight : new_links[g] # {} /\ new_links[g] # all_new_links

\* C19: no step of a task changes failed_feeds, crawled_links or
\* all_new_links; failed_feeds changes only when the orchestrator merges a
\* completed future.
C19_OnlyMergeChangesFailedFeeds ==
    /\ [][\A f \in rss_feeds :
             Parses(f) =>
                 /\ failed_feeds' = failed_feeds
                 /\ crawled_links' = crawled_links
                 /\ all_new_links' = all_new_links]_vars
    /\ [][failed_feeds' # failed_feeds =>
             \E f \in rss_feeds : f \in Completed /\ ~merged[f] /\ merged'[f]]_vars

\* C20: the set passed to _save_links holds no link of the store; the store
\* file grows only by the links of that set, one line each, and no link is in
\* two of the sets saved by one process or in a saved set and in the store
\* loaded at startup.
C20_EachLinkAppendedOnce ==
    /\ [](pc = "save" => all_new_links \cap crawled_links = {})
    /\ [](\A i \in DOMAIN snapshots :
             /\ snapshots[i] \cap loaded_links = {}
             /\ \A j \in DOMAIN snapshots : i # j => snapshots[i] \cap snapshots[j] = {})
    /\ [][all_links_file' # all_links_file =>
             /\ snapshots' = Append(snapshots, all_new_links)
             /\ \E order \in Orders(all_new_links) :
                    all_links_file' = all_links_file \o WriteLinks(order)]_vars

\* In the cycle after one that saved links, two feeds have returned the same
\* new link and the result of one of them is merged.
C20_Witness ==
    /\ pc = "collect"
    /\ Len(snapshots) = 1
    /\ \E f, g \in rss_feeds :
           /\ f # g
           /\ merged[f]
           /\ task[g] = "returned" /\ ~merged[g]
           /\ new_links[g] \cap all_new_links # {}

====
